---- MODULE Spec2Model ----
(***************************************************************************)
(* The alarm clock service: the occurrence calculator of models.py, the    *)
(* JSON store of storage.py, the player registry of players.py and the     *)
(* asyncio scheduler of scheduler.py.                                      *)
(*                                                                         *)
(* Time is counted in ticks of half a second since midnight UTC of a       *)
(* Monday (day 0).  Every comparison of the calculator is between whole    *)
(* seconds and now + 0.5 s, so half a second is the coarsest grain that    *)
(* keeps both sides of each comparison.                                    *)
(*                                                                         *)
(* The scheduler runs on one asyncio event loop: a coroutine runs without  *)
(* interruption from one await to the next.  Every action below is one     *)
(* such segment of a scheduler operation or of a timer task.               *)
(***************************************************************************)
EXTENDS Integers, Sequences, FiniteSets, TLC

(***************************************************************************)
(* Bounds of the model.                                                    *)
(***************************************************************************)
\* the clock runs over the days 0..MaxDay
MaxDay == 1
\* task objects alive at once for one alarm id
MaxTasks == 2
\* Alarm objects alive at once for one alarm id
MaxObjs == 2
\* writes of the store that fail in one run
MaxFaults == 1

(***************************************************************************)
(* Units of time.                                                          *)
(***************************************************************************)
TicksPerSecond == 2
\* timedelta(seconds=0.5)
Grace == TicksPerSecond \div 2
TicksPerDay == 24 * 60 * 60 * TicksPerSecond
\* the hour every alarm of the input universe rings at
AlarmHour == 7

Ids == {"a", "b"}
\* the ids whose add_alarm scenario is followed in scen
Watched == {"a"}

(***************************************************************************)
(* models.py                                                               *)
(***************************************************************************)
RECURSIVE SortedSeq(_)
\* sorted(...): the ascending sequence of a set of integers
SortedSeq(S) ==
    IF S = {} THEN <<>>
    ELSE LET m == CHOOSE x \in S : \A y \in S : x <= y
         IN  <<m>> \o SortedSeq(S \ {m})

Range(s) == {s[k] : k \in 1..Len(s)}

\* a _normalize_days that keeps the days in the order of their first
\* appearance, without sorted(...)
NormalizeDaysUnsorted(days) ==
    IF days = <<>> THEN <<"ok", <<>>>>
    ELSE IF \E k \in 1..Len(days) : days[k] < 0 \/ days[k] > 6
         THEN <<"ValueError">>
         ELSE <<"ok", SelectSeq([k \in 1..Len(days) |->
                                   IF \E j \in 1..k - 1 : days[j] = days[k] THEN -1 ELSE days[k]],
                               LAMBDA d : d # -1)>>

\* _normalize_days: <<"ValueError">> for an index outside 0..6, else the
\* sorted tuple of the distinct days, wrapped as <<"ok", tuple>>
NormalizeDays(days) ==
    IF days = <<>> THEN <<"ok", <<>>>>
    ELSE IF \E k \in 1..Len(days) : days[k] < 0 \/ days[k] > 6
         THEN <<"ValueError">>
         ELSE <<"ok", SortedSeq(Range(days))>>

\* ZoneInfo(key): the keys the time zone database has; for any other key
\* ZoneInfo raises ZoneInfoNotFoundError
Zones == {"UTC", "Etc/GMT-2"}

\* the offset of a zone from UTC, in ticks (the zones of the model have no
\* daylight-saving transitions)
ZoneOffset(tz) ==
    CASE tz = "UTC" -> 0
      [] tz = "Etc/GMT-2" -> 2 * 60 * 60 * TicksPerSecond

\* Alarm(...): the dataclass value.  start_date is <<>> (None) or <<day>>.
Alarm(id, hour, minute, second, tz, days, start, source, enabled) ==
    [id |-> id, hour |-> hour, minute |-> minute, second |-> second,
     timezone |-> tz, repeat_days |-> NormalizeDays(days)[2],
     start_date |-> start, music |-> [source |-> source], enabled |-> enabled]

\* Alarm.__post_init__ on the arguments of a constructor call: the error it
\* raises, or the Alarm constructed.  The time zone is not looked at.
Construct(args) ==
    IF args.id = ""
    THEN [raised |-> "ValueError", value |-> <<>>]
    ELSE IF ~(/\ 0 <= args.hour /\ args.hour <= 23
              /\ 0 <= args.minute /\ args.minute <= 59
              /\ 0 <= args.second /\ args.second <= 59)
    THEN [raised |-> "ValueError", value |-> <<>>]
    ELSE IF NormalizeDays(args.repeat_days)[1] = "ValueError"
    THEN [raised |-> "ValueError", value |-> <<>>]
    ELSE [raised |-> "",
          value |-> <<Alarm(args.id, args.hour, args.minute, args.second,
                            args.timezone, args.repeat_days, args.start_date,
                            args.music.source, args.enabled)>>]

\* Alarm.to_dict: the JSON record
ToDict(alarm) ==
    [id |-> alarm.id, hour |-> alarm.hour, minute |-> alarm.minute,
     second |-> alarm.second, timezone |-> alarm.timezone,
     repeat_days |-> alarm.repeat_days,
     start_date |-> alarm.start_date,
     music |-> [source |-> alarm.music.source],
     enabled |-> alarm.enabled]

\* Alarm.from_dict: a new Alarm built from a JSON record
FromDict(payload) ==
    Alarm(payload.id, payload.hour, payload.minute, payload.second,
          payload.timezone, payload.repeat_days, payload.start_date,
          payload.music.source, payload.enabled)

\* date.weekday(): day 0 is a Monday
Weekday(date) == date % 7

\* now.astimezone(tz).date()
LocalDate(now, tz) == (now + ZoneOffset(tz)) \div TicksPerDay

\* combine(target_date): the UTC instant of the alarm's local time on a date
Combine(alarm, date) ==
    date * TicksPerDay
    + ((alarm.hour * 60 + alarm.minute) * 60 + alarm.second) * TicksPerSecond
    - ZoneOffset(alarm.timezone)

MinOf(S) == CHOOSE x \in S : \A y \in S : x <= y

\* a next_occurrence whose one-off branch compares with now, without the
\* half second of grace
NextOccurrenceNoGrace(alarm, now) ==
    LET today == LocalDate(now, alarm.timezone)
        candidate_date == IF alarm.start_date # <<>> THEN alarm.start_date[1] ELSE today
        hits == {offset \in 0..6 :
                    /\ ~(today + offset < candidate_date)
                    /\ Weekday(today + offset) \in Range(alarm.repeat_days)
                    /\ Combine(alarm, today + offset) > now + Grace}
        next_day == MinOf(Range(alarm.repeat_days))
        mod == (next_day - Weekday(today)) % 7
        delta == IF mod = 0 THEN 7 ELSE mod
        occurrence == Combine(alarm, candidate_date)
    IN  IF ~alarm.enabled THEN <<>>
        ELSE IF alarm.start_date # <<>> /\ alarm.start_date[1] < today
                /\ alarm.repeat_days = <<>>
        THEN <<>>
        ELSE IF alarm.repeat_days # <<>>
        THEN IF hits # {} THEN <<Combine(alarm, today + MinOf(hits))>>
             ELSE <<Combine(alarm, today + delta)>>
        ELSE IF occurrence <= now
        THEN IF alarm.start_date # <<>> THEN <<>>
             ELSE <<Combine(alarm, today + 1)>>
        ELSE <<occurrence>>

\* a next_occurrence whose one-off branch moves to the next day also when a
\* start_date is set
NextOccurrenceRolls(alarm, now) ==
    LET today == LocalDate(now, alarm.timezone)
        candidate_date == IF alarm.start_date # <<>> THEN alarm.start_date[1] ELSE today
        hits == {offset \in 0..6 :
                    /\ ~(today + offset < candidate_date)
                    /\ Weekday(today + offset) \in Range(alarm.repeat_days)
                    /\ Combine(alarm, today + offset) > now + Grace}
        next_day == MinOf(Range(alarm.repeat_days))
        mod == (next_day - Weekday(today)) % 7
        delta == IF mod = 0 THEN 7 ELSE mod
        occurrence == Combine(alarm, candidate_date)
    IN  IF ~alarm.enabled THEN <<>>
        ELSE IF alarm.start_date # <<>> /\ alarm.start_date[1] < today
                /\ alarm.repeat_days = <<>>
        THEN <<>>
        ELSE IF alarm.repeat_days # <<>>
        THEN IF hits # {} THEN <<Combine(alarm, today + MinOf(hits))>>
             ELSE <<Combine(alarm, today + delta)>>
        ELSE IF occurrence <= now + Grace
        THEN <<Combine(alarm, today + 1)>>
        ELSE <<occurrence>>

\* Alarm.next_occurrence(now=now) from its third statement on, the zone
\* being known: <<>> (None) or <<instant>>
NextOccurrence(alarm, now) ==
    LET today == LocalDate(now, alarm.timezone)
        candidate_date == IF alarm.start_date # <<>> THEN alarm.start_date[1] ELSE today
        hits == {offset \in 0..6 :
                    /\ ~(today + offset < candidate_date)
                    /\ Weekday(today + offset) \in Range(alarm.repeat_days)
                    /\ Combine(alarm, today + offset) > now + Grace}
        next_day == MinOf(Range(alarm.repeat_days))
        mod == (next_day - Weekday(today)) % 7
        delta == IF mod = 0 THEN 7 ELSE mod
        occurrence == Combine(alarm, candidate_date)
    IN  IF ~alarm.enabled THEN <<>>
        ELSE IF alarm.start_date # <<>> /\ alarm.start_date[1] < today
                /\ alarm.repeat_days = <<>>
        THEN <<>>
        ELSE IF alarm.repeat_days # <<>>
        THEN IF hits # {} THEN <<Combine(alarm, today + MinOf(hits))>>
             ELSE <<Combine(alarm, today + delta)>>
        ELSE IF occurrence <= now + Grace
        THEN IF alarm.start_date # <<>> THEN <<>>
             ELSE <<Combine(alarm, today + 1)>>
        ELSE <<occurrence>>

\* a call of Alarm.next_occurrence(now=now): tz = ZoneInfo(self.timezone) is
\* its second statement, ahead of the test of self.enabled
CallNextOccurrence(alarm, now) ==
    IF alarm.timezone \notin Zones
    THEN [raised |-> "ZoneInfoNotFoundError", value |-> <<>>]
    ELSE [raised |-> "", value |-> NextOccurrence(alarm, now)]

(***************************************************************************)
(* players.py                                                              *)
(***************************************************************************)
\* build_registry: the sources with a registered player
Registered == {"tone", "spotify", "app"}
\* the registered players whose play() has a raise PlayerError
MayFail == {"spotify", "app"}

(***************************************************************************)
(* The inputs: the alarms callers pass, the instants the clock shows, the  *)
(* file a previous run left behind.                                        *)
(***************************************************************************)
\* repeat_days and music source of the alarms passed in: every kind under
\* id "a", the one-off tone alarm of the tests under the other ids
Kinds(i) ==
    IF i = "a"
    THEN {<< <<>>, "app" >>, << <<1, 1>>, "app" >>, << <<>>, "radio" >>}
    ELSE {<< <<>>, "tone" >>}

Inputs(i) ==
    {Alarm(i, AlarmHour, 0, 0, "UTC", kd[1], <<>>, kd[2], en) :
        kd \in Kinds(i), en \in BOOLEAN}

\* the instant the alarms of the universe ring at on a day
Fire(d) == d * TicksPerDay + AlarmHour * 60 * 60 * TicksPerSecond

\* the instants the clock shows after the first: within the grace window of
\* the first ring, and at the ring of each day
Clock == {Fire(0) - Grace} \cup {Fire(d) : d \in 0..MaxDay}

InitStores == {{}, {ToDict(Alarm("b", AlarmHour, 0, 0, "UTC", <<>>, <<>>, "tone", TRUE))}}

(***************************************************************************)
(* The state.                                                              *)
(*                                                                         *)
(* Objects are named by position.  heap[id][1] is the Alarm object that    *)
(* self._alarms[id] refers to; an object the mapping no longer holds but a *)
(* task still does sits at a ref above 1.  task[id][1] is the task that    *)
(* self._tasks[id] refers to; a task the mapping no longer holds sits at a *)
(* slot above 1 until it has ended and nothing awaits it.                  *)
(***************************************************************************)
VARIABLES
    now,          \* datetime.now(tz=timezone.utc), in ticks
    store,        \* JsonAlarmStore: the records of the file
    storeQ,       \* JsonAlarmStore._lock: its holder, then its waiters in order
    heap,         \* the Alarm objects: heap[id][ref]
    alarms,       \* AlarmScheduler._alarms: id -> ref of its Alarm, 0 when absent
    tasks,        \* AlarmScheduler._tasks: id -> slot of its task, 0 when absent
    task,         \* the asyncio tasks running _run_alarm: task[id][slot]
    started,      \* AlarmScheduler._started
    op,           \* the operation holding AlarmScheduler._lock, and where it is
    ret,          \* the call that ended in the last step, and how
    scen,         \* per id: the timer playbacks of an alarm left alone since add_alarm
    everStarted,  \* a start() has completed
    faults,       \* the writes of the store that have failed so far
    snap,         \* the dict a snapshot() call returned, as it is now
    calc          \* the last call of a function of models.py, with its result

\* the state of the scheduler, its store and its clock
sched == <<now, store, storeQ, heap, alarms, tasks, task, started, op, ret, scen, everStarted>>

vars == <<now, store, storeQ, heap, alarms, tasks, task, started, op, ret, scen, everStarted,
          faults, snap, calc>>

OpAgent == <<"op", 0>>

FreeTask == [pc |-> "free", alarm |-> 0, wake |-> 0, cancel |-> FALSE, data |-> {}, res |-> "none"]
NewTask == [FreeTask EXCEPT !.pc = "new"]
Done(res) == [FreeTask EXCEPT !.pc = "done", !.res = res]
Live(t) == t.pc \notin {"free", "done"}
\* the exception "await task" raises for a task that ended with result res
ErrorOf(res) ==
    CASE res = "error" -> "PlayerError"
      [] res = "nozone" -> "ZoneInfoNotFoundError"
      [] OTHER -> "StorageFailed"

Idle == [name |-> "none", pc |-> "idle", id |-> "", data |-> {}, pending |-> {},
         cancelled |-> {}, late |-> FALSE]

Ret(name, id, out, late) == [op |-> name, id |-> id, out |-> out, late |-> late]
\* no call ended in the last step
NoRet == Ret("none", "", "ok", FALSE)

\* self._alarms.values(), as the store writes them: [alarm.to_dict() for alarm in alarms]
LiveView(al, hp) == {ToDict(hp[i][al[i]]) : i \in {j \in Ids : al[j] # 0}}

\* the refs of id i its tasks hold in their local "alarm"
TaskRefs(tk, i) == {tk[i][k].alarm : k \in 1..MaxTasks} \ {0}

\* heap with object r of id i set to value v
Put(hp, i, r, v) ==
    [hp EXCEPT ![i] = [x \in (DOMAIN hp[i]) \cup {r} |-> IF x = r THEN v ELSE hp[i][x]]]

\* objects nothing refers to are gone
Collect(hp, al, tk) ==
    [i \in Ids |-> [r \in {x \in DOMAIN hp[i] : x = al[i] \/ x \in TaskRefs(tk, i)} |-> hp[i][r]]]

\* self._alarms lets go of the object of each id in S: an object a task
\* still holds moves to a ref above 1
Aside(hp, i) == MinOf((2..MaxObjs) \ DOMAIN hp[i])
Held(hp, tk, i) == 1 \in DOMAIN hp[i] /\ 1 \in TaskRefs(tk, i)
CanRetire(hp, tk, S) == \A i \in S : Held(hp, tk, i) => (2..MaxObjs) \ DOMAIN hp[i] # {}
RetiredHeap(hp, tk, S) ==
    [i \in Ids |->
        IF i \notin S THEN hp[i]
        ELSE [r \in ((DOMAIN hp[i]) \ {1}) \cup (IF Held(hp, tk, i) THEN {Aside(hp, i)} ELSE {}) |->
                 IF r \in DOMAIN hp[i] /\ r # 1 THEN hp[i][r] ELSE hp[i][1]]]
RetiredTasks(hp, tk, S) ==
    [i \in Ids |-> [k \in 1..MaxTasks |->
        IF i \in S /\ tk[i][k].alarm = 1
        THEN [tk[i][k] EXCEPT !.alarm = Aside(hp, i)] ELSE tk[i][k]]]

\* self._tasks lets go of the task of each id in S (pop, or an assignment
\* over it): a task that has not ended moves to a slot above 1
Spare(tk, i) == MinOf({k \in 2..MaxTasks : tk[i][k].pc = "free"})
CanDisplace(tk, S) ==
    \A i \in S : Live(tk[i][1]) => \E k \in 2..MaxTasks : tk[i][k].pc = "free"
Displaced(tk, S) ==
    [i \in Ids |-> [k \in 1..MaxTasks |->
        IF i \notin S THEN tk[i][k]
        ELSE IF k = 1 THEN FreeTask
        ELSE IF Live(tk[i][1]) /\ k = Spare(tk, i) THEN tk[i][1]
        ELSE tk[i][k]]]
Renamed(q, tk, S) ==
    [n \in 1..Len(q) |->
        IF q[n][1] \in S /\ q[n][2] = 1 /\ Live(tk[q[n][1]][1])
        THEN <<q[n][1], Spare(tk, q[n][1])>> ELSE q[n]]

\* asyncio.create_task(self._run_alarm(i)) for each id in S, assigned to self._tasks[i]
Spawned(tk, S) ==
    [i \in Ids |-> [k \in 1..MaxTasks |->
        IF i \in S /\ k = 1 THEN NewTask ELSE Displaced(tk, S)[i][k]]]

\* task objects nothing refers to any more are gone
Reap(tk, tks, o) ==
    [i \in Ids |-> [k \in 1..MaxTasks |->
        IF tk[i][k].pc = "done" /\ tks[i] # k /\ <<i, k>> \notin o.pending \cup o.cancelled
        THEN FreeTask ELSE tk[i][k]]]

\* a cancel that requests nothing: the task is awaited as it is
CancelTaskNoRequest(t) == t

\* task.cancel(): a task that is not done gets a CancelledError at its await
CancelTask(t) == IF Live(t) THEN [t EXCEPT !.cancel = TRUE] ELSE t

\* a timer playback of id i, counted for the alarm add_alarm left alone
Count(sc, i) ==
    [sc EXCEPT ![i] = CASE @ = "armed" -> "fired" [] @ = "fired" -> "twice" [] OTHER -> @]
\* an operation touches the ids in S
Touch(sc, S) == [i \in Ids |-> IF i \in S THEN "off" ELSE sc[i]]

\* no snapshot() has returned.  Of a returned dict, ref[id] is the place in
\* heap of the Alarm object under key id (0 when the key is absent, or when
\* nothing but the dict refers to the object any more, so that it has stopped
\* changing) and seen[id] is <<the value that object had at the call>>.
NoSnap == [taken |-> FALSE, ref |-> [i \in Ids |-> 0], seen |-> [i \in Ids |-> <<>>]]

\* the returned dict after a step in which self._alarms lets go of the
\* objects of the ids in S: it goes on referring to the same objects
KeptSnap(S) ==
    [snap EXCEPT !.ref = [i \in Ids |->
        LET r == IF i \in S /\ snap.ref[i] = 1
                 THEN IF Held(heap, task, i) THEN Aside(heap, i) ELSE 0
                 ELSE snap.ref[i]
        IN  IF r \in DOMAIN heap'[i] THEN r ELSE 0]]

\* the arguments of a constructor call Alarm(id=..., hour=..., ...), hms
\* being <<hour, minute, second>>
Args(id, hms, tz, days, start, en) ==
    [id |-> id, hour |-> hms[1], minute |-> hms[2], second |-> hms[3],
     timezone |-> tz, repeat_days |-> days, start_date |-> start,
     music |-> [source |-> "tone"], enabled |-> en]

\* no function of models.py has been called.  args and now are the
\* arguments of the calls, obj is <<>> or <<the Alarm constructed>>, out is
\* the outcome of the last call.
NoCalc ==
    [fn |-> "none", args |-> Args("a", <<AlarmHour, 0, 0>>, "UTC", <<>>, <<>>, TRUE),
     now |-> 0, obj |-> <<>>, out |-> [raised |-> "", value |-> <<>>]]

\* what a step of the scheduler leaves of the rest of the state
Frame(S) ==
    /\ snap' = KeptSnap(S)
    /\ UNCHANGED <<faults, calc>>

\* a new AlarmScheduler on a file that is one of stores
SchedInitOn(stores) ==
    /\ now = Fire(0) - TicksPerSecond
    /\ store \in stores
    /\ storeQ = <<>>
    /\ heap = [i \in Ids |-> <<>>]
    /\ alarms = [i \in Ids |-> 0]
    /\ tasks = [i \in Ids |-> 0]
    /\ task = [i \in Ids |-> [k \in 1..MaxTasks |-> FreeTask]]
    /\ started = FALSE
    /\ op = Idle
    /\ ret = NoRet
    /\ scen = [i \in Ids |-> "off"]
    /\ everStarted = FALSE

SchedInit == SchedInitOn(InitStores)

Init ==
    /\ SchedInit
    /\ faults = 0
    /\ snap = NoSnap
    /\ calc = NoCalc

\* the clock moves on
Tick ==
    /\ \E t \in Clock : t > now /\ now' = t
    /\ ret' = NoRet
    /\ UNCHANGED <<store, storeQ, heap, alarms, tasks, task, started, op, scen, everStarted>>
    /\ Frame({})

(***************************************************************************)
(* storage.py: JsonAlarmStore.save and load take JsonAlarmStore._lock, an  *)
(* asyncio.Lock, which serves its waiters first come, first served.        *)
(***************************************************************************)
\* a timer task calls self._store.save(self._alarms.values()): with the lock
\* free it takes it and builds the records at once, else it queues
TaskSave(i, k, al, hp, q) ==
    [t |-> IF q = <<>>
           THEN [FreeTask EXCEPT !.pc = "saving", !.data = LiveView(al, hp)]
           ELSE [FreeTask EXCEPT !.pc = "save_wait"],
     hp |-> hp,
     q |-> Append(q, <<i, k>>),
     played |-> FALSE]

\* an operation calls self._store.save(self._alarms.values())
OpSave(name, i, al, hp, q) ==
    [Idle EXCEPT !.name = name, !.id = i,
                 !.pc = IF q = <<>> THEN "saving" ELSE "save_wait",
                 !.data = IF q = <<>> THEN LiveView(al, hp) ELSE {}]

Without(q, ag) == SelectSeq(q, LAMBDA x : x # ag)

(***************************************************************************)
(* scheduler.py: the timer task _run_alarm(alarm_id).                      *)
(***************************************************************************)
\* self._players.play(alarm), up to the handler's first await
PlayStart(hp, q, i, r) ==
    IF hp[i][r].music.source \in Registered
    THEN [t |-> [FreeTask EXCEPT !.pc = "playing", !.alarm = r], hp |-> hp, q |-> q, played |-> TRUE]
    ELSE [t |-> Done("error"), hp |-> hp, q |-> q, played |-> FALSE]

\* alarm.enabled = False; await self._store.save(...)
DisableAndSave(i, k, r, al, hp, q) ==
    TaskSave(i, k, al, [hp EXCEPT ![i][r].enabled = FALSE], q)

\* one pass of the while loop, from its head to the first await
LoopHead(i, k, al, hp, q, t) ==
    LET r == al[i] IN
    IF r = 0 \/ ~hp[i][r].enabled
    THEN [t |-> Done("ok"), hp |-> hp, q |-> q, played |-> FALSE]
    ELSE IF CallNextOccurrence(hp[i][r], t).raised # ""
    THEN [t |-> Done("nozone"), hp |-> hp, q |-> q, played |-> FALSE]
    ELSE LET next_time == CallNextOccurrence(hp[i][r], t).value IN
         IF next_time = <<>>
         THEN DisableAndSave(i, k, r, al, hp, q)
         ELSE IF next_time[1] - t > 0
         THEN [t |-> [FreeTask EXCEPT !.pc = "sleeping", !.alarm = r, !.wake = next_time[1]],
               hp |-> hp, q |-> q, played |-> FALSE]
         ELSE PlayStart(hp, q, i, r)

\* what a segment of task k of id i leaves behind
TaskEffect(i, k, e) ==
    /\ task' = Reap([task EXCEPT ![i][k] = e.t], tasks, op)
    /\ heap' = Collect(e.hp, alarms, task')
    /\ storeQ' = e.q
    /\ scen' = IF e.played THEN Count(scen, i) ELSE scen
    /\ ret' = NoRet
    /\ UNCHANGED <<now, store, alarms, tasks, started, op, everStarted>>

\* the task starts to run
TaskRun(i, k) ==
    /\ task[i][k].pc = "new" /\ ~task[i][k].cancel
    /\ TaskEffect(i, k, LoopHead(i, k, alarms, heap, storeQ, now))
    /\ Frame({})

\* asyncio.sleep(wait_seconds) is over: the playback is invoked
TaskWake(i, k) ==
    /\ task[i][k].pc = "sleeping" /\ ~task[i][k].cancel
    /\ now >= task[i][k].wake
    /\ TaskEffect(i, k, PlayStart(heap, storeQ, i, task[i][k].alarm))
    /\ Frame({})

\* a timer task that disables its alarm after every playback, repeating or not
TaskPlayedDisables(i, k) ==
    /\ task[i][k].pc = "playing" /\ ~task[i][k].cancel
    /\ TaskEffect(i, k, DisableAndSave(i, k, task[i][k].alarm, alarms, heap, storeQ))
    /\ Frame({})

\* the handler returns
TaskPlayed(i, k) ==
    /\ task[i][k].pc = "playing" /\ ~task[i][k].cancel
    /\ TaskEffect(i, k,
         IF heap[i][task[i][k].alarm].repeat_days = <<>>
         THEN DisableAndSave(i, k, task[i][k].alarm, alarms, heap, storeQ)
         ELSE LoopHead(i, k, alarms, heap, storeQ, now))
    /\ Frame({})

\* the handler raises PlayerError: nothing in _run_alarm catches it
TaskFailed(i, k) ==
    /\ task[i][k].pc = "playing" /\ ~task[i][k].cancel
    /\ heap[i][task[i][k].alarm].music.source \in MayFail
    /\ TaskEffect(i, k, [t |-> Done("error"), hp |-> heap, q |-> storeQ, played |-> FALSE])
    /\ Frame({})

\* the task is granted the store's lock and builds the records
TaskGranted(i, k) ==
    /\ task[i][k].pc = "save_wait" /\ ~task[i][k].cancel
    /\ Head(storeQ) = <<i, k>>
    /\ TaskEffect(i, k, [t |-> [FreeTask EXCEPT !.pc = "saving", !.data = LiveView(alarms, heap)],
                         hp |-> heap, q |-> storeQ, played |-> FALSE])
    /\ Frame({})

\* the file is written, the lock released, the task returns
TaskWritten(i, k) ==
    /\ task[i][k].pc = "saving" /\ ~task[i][k].cancel
    /\ store' = task[i][k].data
    /\ task' = Reap([task EXCEPT ![i][k] = Done("ok")], tasks, op)
    /\ heap' = Collect(heap, alarms, task')
    /\ storeQ' = Tail(storeQ)
    /\ ret' = NoRet
    /\ UNCHANGED <<now, alarms, tasks, started, op, scen, everStarted>>
    /\ Frame({})

\* the write fails (mkdir or write_text raises OSError in its thread): the
\* lock is released and the error ends the task, nothing in _run_alarm
\* catching it
TaskSaveFailed(i, k) ==
    /\ task[i][k].pc = "saving" /\ ~task[i][k].cancel
    /\ task' = Reap([task EXCEPT ![i][k] = Done("failed")], tasks, op)
    /\ heap' = Collect(heap, alarms, task')
    /\ storeQ' = Tail(storeQ)
    /\ ret' = NoRet
    /\ UNCHANGED <<now, store, alarms, tasks, started, op, scen, everStarted>>
    /\ faults < MaxFaults
    /\ faults' = faults + 1
    /\ snap' = KeptSnap({})
    /\ UNCHANGED calc

\* the CancelledError arrives at the await the task is suspended in (a task
\* that never ran ends cancelled).  A write already handed to its thread
\* may still reach the file.
TaskCancelled(i, k) ==
    /\ Live(task[i][k]) /\ task[i][k].cancel
    /\ store' \in IF task[i][k].pc = "saving" THEN {store, task[i][k].data} ELSE {store}
    /\ task' = Reap([task EXCEPT ![i][k] =
                        Done(IF task[i][k].pc = "new" THEN "cancelled" ELSE "ok")], tasks, op)
    /\ heap' = Collect(heap, alarms, task')
    /\ storeQ' = Without(storeQ, <<i, k>>)
    /\ ret' = NoRet
    /\ UNCHANGED <<now, alarms, tasks, started, op, scen, everStarted>>
    /\ Frame({})

(***************************************************************************)
(* scheduler.py: the operations.  Each runs under AlarmScheduler._lock     *)
(* (op), except trigger_now and snapshot, which take no lock.              *)
(***************************************************************************)
\* the record of id i in the file
Stored(i) == CHOOSE d \in store : d.id = i
InStore(i) == \E d \in store : d.id = i

\* a start() that lacks "if self._started: return"
StartAgain ==
    /\ op.pc = "idle"
    /\ scen' = Touch(scen, Ids)
    /\ op' = [Idle EXCEPT !.name = "start", !.pc = "load"]
    /\ storeQ' = Append(storeQ, OpAgent)
    /\ ret' = NoRet
    /\ UNCHANGED <<now, store, heap, alarms, tasks, task, started, everStarted>>
    /\ Frame({})

\* start(), to the await of self._store.load()
Start ==
    /\ op.pc = "idle"
    /\ scen' = Touch(scen, Ids)
    /\ IF started
       THEN /\ ret' = Ret("start", "", "ok", FALSE)
            /\ UNCHANGED <<op, storeQ>>
       ELSE /\ op' = [Idle EXCEPT !.name = "start", !.pc = "load"]
            /\ storeQ' = Append(storeQ, OpAgent)
            /\ ret' = NoRet
    /\ UNCHANGED <<now, store, heap, alarms, tasks, task, started, everStarted>>
    /\ Frame({})

\* start(), from the loaded list to its return
StartLoaded ==
    LET loaded == {i \in Ids : InStore(i)}
        held == {i \in Ids : alarms[i] # 0}
        enabled == {i \in loaded : FromDict(Stored(i)).enabled}
        hp == RetiredHeap(heap, task, held)
        tk == RetiredTasks(heap, task, held)
    IN
    /\ op.name = "start" /\ op.pc = "load"
    /\ Head(storeQ) = OpAgent
    /\ CanRetire(heap, task, held)
    /\ CanDisplace(tk, enabled)
    /\ alarms' = [i \in Ids |-> IF i \in loaded THEN 1 ELSE 0]
    /\ tasks' = [i \in Ids |-> IF i \in enabled THEN 1 ELSE tasks[i]]
    /\ task' = Reap(Spawned(tk, enabled), tasks', Idle)
    /\ heap' = Collect([i \in Ids |-> IF i \in loaded
                                       THEN Put(hp, i, 1, FromDict(Stored(i)))[i]
                                       ELSE hp[i]], alarms', task')
    /\ started' = TRUE
    /\ everStarted' = TRUE
    /\ storeQ' = Renamed(Tail(storeQ), tk, enabled)
    /\ op' = Idle
    /\ ret' = Ret("start", "", "ok", FALSE)
    /\ UNCHANGED <<now, store, scen>>
    /\ Frame(held)

\* list(self._tasks.values()), as <<id, slot>>
TaskList == {<<i, tasks[i]>> : i \in {j \in Ids : tasks[j] # 0}}

\* a sleeping task among S whose wake time has passed
Overdue(S) == \E ag \in S : /\ task[ag[1]][ag[2]].pc = "sleeping"
                            /\ task[ag[1]][ag[2]].wake <= now

\* stop(), to the first await of a task
Stop ==
    /\ op.pc = "idle"
    /\ scen' = Touch(scen, Ids)
    /\ IF TaskList = {}
       THEN /\ started' = FALSE
            /\ ret' = Ret("stop", "", "ok", FALSE)
            /\ UNCHANGED <<op, task>>
       ELSE /\ task' = [i \in Ids |-> [k \in 1..MaxTasks |->
                          IF tasks[i] = k THEN CancelTask(task[i][k]) ELSE task[i][k]]]
            /\ op' = [Idle EXCEPT !.name = "stop", !.pc = "await",
                         !.pending = TaskList,
                         !.cancelled = {ag \in TaskList : Live(task[ag[1]][ag[2]])},
                         !.late = Overdue(TaskList)]
            /\ ret' = NoRet
            /\ UNCHANGED started
    /\ UNCHANGED <<now, store, storeQ, heap, alarms, tasks, everStarted>>
    /\ Frame({})

\* stop(): "await task" of a task that has ended
StopAwait(i, k) ==
    /\ op.name = "stop" /\ op.pc = "await"
    /\ <<i, k>> \in op.pending
    /\ task[i][k].pc = "done"
    /\ IF task[i][k].res \in {"error", "nozone", "failed"}
       THEN \* the task's exception is raised out of stop()
            /\ op' = Idle
            /\ ret' = Ret("stop", "", ErrorOf(task[i][k].res), op.late)
            /\ UNCHANGED <<tasks, started>>
       ELSE IF op.pending = {<<i, k>>}
       THEN /\ tasks' = [j \in Ids |-> 0]
            /\ started' = FALSE
            /\ op' = Idle
            /\ ret' = Ret("stop", "", "ok", op.late)
       ELSE /\ op' = [op EXCEPT !.pending = @ \ {<<i, k>>}]
            /\ ret' = NoRet
            /\ UNCHANGED <<tasks, started>>
    /\ task' = Reap(task, tasks', op')
    /\ UNCHANGED <<now, store, storeQ, heap, alarms, scen, everStarted>>
    /\ Frame({})

\* an operation ends at once, with nothing but its outcome
Raise(name, i, out) ==
    /\ ret' = Ret(name, i, out, FALSE)
    /\ UNCHANGED <<now, store, storeQ, heap, alarms, tasks, task, started, op, everStarted>>

\* the alarm add_alarm leaves alone from here on
Arm(alarm) ==
    IF alarm.id \in Watched /\ started /\ alarm.enabled
       /\ alarm.repeat_days = <<>> /\ alarm.music.source \in Registered
    THEN "armed" ELSE "off"

\* an add_alarm that assigns self._alarms[alarm.id] before it looks for the id
AddAlarmInsertFirst(alarm) ==
    LET i == alarm.id IN
    /\ op.pc = "idle"
    /\ IF alarms[i] # 0
       THEN /\ scen' = Touch(scen, {i})
            /\ CanRetire(heap, task, {i})
            /\ heap' = Put(RetiredHeap(heap, task, {i}), i, 1, alarm)
            /\ task' = RetiredTasks(heap, task, {i})
            /\ ret' = Ret("add_alarm", i, "DuplicateId", FALSE)
            /\ UNCHANGED <<now, store, storeQ, alarms, tasks, started, op, everStarted>>
       ELSE /\ alarms' = [alarms EXCEPT ![i] = 1]
            /\ heap' = Put(heap, i, 1, alarm)
            /\ op' = OpSave("add_alarm", i, alarms', heap', storeQ)
            /\ storeQ' = Append(storeQ, OpAgent)
            /\ scen' = [scen EXCEPT ![i] = Arm(alarm)]
            /\ ret' = NoRet
            /\ UNCHANGED <<now, store, tasks, task, started, everStarted>>
    /\ Frame({alarm.id})

\* an add_alarm that creates the timer task before it awaits the save
AddAlarmSpawnFirst(alarm) ==
    LET i == alarm.id IN
    /\ op.pc = "idle"
    /\ IF alarms[i] # 0
       THEN /\ scen' = Touch(scen, {i})
            /\ Raise("add_alarm", i, "DuplicateId")
       ELSE /\ alarms' = [alarms EXCEPT ![i] = 1]
            /\ heap' = Put(heap, i, 1, alarm)
            /\ op' = OpSave("add_alarm", i, alarms', heap', storeQ)
            /\ CanDisplace(task, {i})
            /\ tasks' = IF started /\ alarm.enabled THEN [tasks EXCEPT ![i] = 1] ELSE tasks
            /\ task' = IF started /\ alarm.enabled THEN Spawned(task, {i}) ELSE task
            /\ storeQ' = Append(Renamed(storeQ, task, {i}), OpAgent)
            /\ scen' = [scen EXCEPT ![i] = Arm(alarm)]
            /\ ret' = NoRet
            /\ UNCHANGED <<now, store, started, everStarted>>
    /\ Frame({})

\* add_alarm(alarm), to the await of self._store.save(...)
AddAlarm(alarm) ==
    LET i == alarm.id IN
    /\ op.pc = "idle"
    /\ IF alarms[i] # 0
       THEN /\ scen' = Touch(scen, {i})
            /\ Raise("add_alarm", i, "DuplicateId")
       ELSE /\ alarms' = [alarms EXCEPT ![i] = 1]
            /\ heap' = Put(heap, i, 1, alarm)
            /\ op' = OpSave("add_alarm", i, alarms', heap', storeQ)
            /\ storeQ' = Append(storeQ, OpAgent)
            /\ scen' = [scen EXCEPT ![i] = Arm(alarm)]
            /\ ret' = NoRet
            /\ UNCHANGED <<now, store, tasks, task, started, everStarted>>
    /\ Frame({})

\* update_alarm(alarm), to the await of self._store.save(...)
UpdateAlarm(alarm) ==
    LET i == alarm.id IN
    /\ op.pc = "idle"
    /\ scen' = Touch(scen, {i})
    /\ IF alarms[i] = 0
       THEN Raise("update_alarm", i, "NotFound")
       ELSE /\ CanRetire(heap, task, {i})
            /\ heap' = Put(RetiredHeap(heap, task, {i}), i, 1, alarm)
            /\ task' = RetiredTasks(heap, task, {i})
            /\ op' = OpSave("update_alarm", i, alarms, heap', storeQ)
            /\ storeQ' = Append(storeQ, OpAgent)
            /\ ret' = NoRet
            /\ UNCHANGED <<now, store, alarms, tasks, started, everStarted>>
    /\ Frame({alarm.id})

\* a remove_alarm that pops with a default, self._alarms.pop(alarm_id, None),
\* and goes on to save
RemoveAlarmSaves(i) ==
    /\ op.pc = "idle"
    /\ scen' = Touch(scen, {i})
    /\ CanRetire(heap, task, {i})
    /\ alarms' = [alarms EXCEPT ![i] = 0]
    /\ heap' = RetiredHeap(heap, task, {i})
    /\ task' = RetiredTasks(heap, task, {i})
    /\ op' = OpSave("remove_alarm", i, alarms', heap', storeQ)
    /\ storeQ' = Append(storeQ, OpAgent)
    /\ ret' = NoRet
    /\ UNCHANGED <<now, store, tasks, started, everStarted>>
    /\ Frame({i})

\* remove_alarm(alarm_id), to the await of self._store.save(...)
RemoveAlarm(i) ==
    /\ op.pc = "idle"
    /\ scen' = Touch(scen, {i})
    /\ IF alarms[i] = 0
       THEN Raise("remove_alarm", i, "NotFound")
       ELSE /\ CanRetire(heap, task, {i})
            /\ alarms' = [alarms EXCEPT ![i] = 0]
            /\ heap' = RetiredHeap(heap, task, {i})
            /\ task' = RetiredTasks(heap, task, {i})
            /\ op' = OpSave("remove_alarm", i, alarms', heap', storeQ)
            /\ storeQ' = Append(storeQ, OpAgent)
            /\ ret' = NoRet
            /\ UNCHANGED <<now, store, tasks, started, everStarted>>
    /\ Frame({i})

\* an enable or disable without "async with self._lock": it runs whether
\* or not another operation holds the lock
SetEnabledNoLock(name, i, value) ==
    /\ scen' = Touch(scen, {i})
    /\ IF alarms[i] = 0
       THEN Raise(name, i, "NotFound")
       ELSE IF heap[i][alarms[i]].enabled = value
       THEN Raise(name, i, "ok")
       ELSE /\ heap' = [heap EXCEPT ![i][alarms[i]].enabled = value]
            /\ op' = OpSave(name, i, alarms, heap', storeQ)
            /\ storeQ' = Append(storeQ, OpAgent)
            /\ ret' = NoRet
            /\ UNCHANGED <<now, store, alarms, tasks, task, started, everStarted>>
    /\ Frame({})

\* an enable or disable that lacks the "already in the requested state" return
SetEnabledAlways(name, i, value) ==
    /\ op.pc = "idle"
    /\ scen' = Touch(scen, {i})
    /\ IF alarms[i] = 0
       THEN Raise(name, i, "NotFound")
       ELSE /\ heap' = [heap EXCEPT ![i][alarms[i]].enabled = value]
            /\ op' = OpSave(name, i, alarms, heap', storeQ)
            /\ storeQ' = Append(storeQ, OpAgent)
            /\ ret' = NoRet
            /\ UNCHANGED <<now, store, alarms, tasks, task, started, everStarted>>
    /\ Frame({})

\* enable(alarm_id) and disable(alarm_id), to the await of self._store.save(...)
SetEnabled(name, i, value) ==
    /\ op.pc = "idle"
    /\ scen' = Touch(scen, {i})
    /\ IF alarms[i] = 0
       THEN Raise(name, i, "NotFound")
       ELSE IF heap[i][alarms[i]].enabled = value
       THEN Raise(name, i, "ok")
       ELSE /\ heap' = [heap EXCEPT ![i][alarms[i]].enabled = value]
            /\ op' = OpSave(name, i, alarms, heap', storeQ)
            /\ storeQ' = Append(storeQ, OpAgent)
            /\ ret' = NoRet
            /\ UNCHANGED <<now, store, alarms, tasks, task, started, everStarted>>
    /\ Frame({})

Enable(i) == SetEnabled("enable", i, TRUE)

Disable(i) == SetEnabled("disable", i, FALSE)

\* the outcomes of self._players.play(alarm) when awaited to its end
PlayOutcomes(alarm) ==
    IF alarm.music.source \notin Registered THEN {"PlayerError"}
    ELSE IF alarm.music.source \in MayFail THEN {"played", "PlayerError"}
    ELSE {"played"}

\* a trigger_now that treats a played one-off alarm as the timer task does:
\* alarm.enabled = False
TriggerNowDisables(i) ==
    /\ scen' = Touch(scen, {i})
    /\ \E out \in IF alarms[i] = 0 THEN {"NotFound"} ELSE PlayOutcomes(heap[i][alarms[i]]) :
          /\ ret' = Ret("trigger_now", i, out, FALSE)
          /\ heap' = IF out = "played" /\ heap[i][alarms[i]].repeat_days = <<>>
                     THEN [heap EXCEPT ![i][alarms[i]].enabled = FALSE] ELSE heap
    /\ UNCHANGED <<now, store, storeQ, alarms, tasks, task, started, op, everStarted>>
    /\ Frame({})

\* trigger_now(alarm_id): no lock
TriggerNow(i) ==
    /\ scen' = Touch(scen, {i})
    /\ \E out \in IF alarms[i] = 0 THEN {"NotFound"} ELSE PlayOutcomes(heap[i][alarms[i]]) :
          Raise("trigger_now", i, out)
    /\ Frame({})

\* the operation is granted the store's lock and builds the records
OpGranted ==
    /\ op.pc = "save_wait"
    /\ Head(storeQ) = OpAgent
    /\ op' = [op EXCEPT !.pc = "saving", !.data = LiveView(alarms, heap)]
    /\ ret' = NoRet
    /\ UNCHANGED <<now, store, storeQ, heap, alarms, tasks, task, started, scen, everStarted>>
    /\ Frame({})

\* the operation's write fails (mkdir or write_text raises OSError in its
\* thread): the store's lock and the scheduler's lock are released and the
\* error leaves the operation
OpSaveFailed ==
    /\ op.pc = "saving"
    /\ storeQ' = Tail(storeQ)
    /\ op' = Idle
    /\ ret' = Ret(op.name, op.id, "StorageFailed", FALSE)
    /\ UNCHANGED <<now, store, heap, alarms, tasks, task, started, scen, everStarted>>
    /\ faults < MaxFaults
    /\ faults' = faults + 1
    /\ snap' = KeptSnap({})
    /\ UNCHANGED calc

\* the operation returns, after
\* self._tasks[i] = asyncio.create_task(self._run_alarm(i)) when respawn
Return(name, i, tks, tk, q, respawn, late) ==
    /\ respawn => CanDisplace(tk, {i})
    /\ tasks' = IF respawn THEN [tks EXCEPT ![i] = 1] ELSE tks
    /\ task' = Reap(IF respawn THEN Spawned(tk, {i}) ELSE tk, tasks', Idle)
    /\ storeQ' = IF respawn THEN Renamed(q, tk, {i}) ELSE q
    /\ op' = Idle
    /\ ret' = Ret(name, i, "ok", late)

\* add_alarm and enable, from the written file to the return
SavedSpawn ==
    /\ op.name \in {"add_alarm", "enable"} /\ op.pc = "saving"
    /\ store' = op.data
    /\ Return(op.name, op.id, tasks, task, Tail(storeQ),
              IF op.name = "add_alarm" THEN started /\ heap[op.id][alarms[op.id]].enabled
              ELSE started, FALSE)
    /\ UNCHANGED <<now, heap, alarms, started, scen, everStarted>>
    /\ Frame({})

\* an update_alarm that cancels the timer task and creates none
RespawnNever(name, i) == FALSE

\* _reschedule after _cancel: "if self._started and alarm.enabled"
Respawn(name, i) == name = "update_alarm" /\ started /\ heap[i][alarms[i]].enabled

\* update_alarm, remove_alarm and disable, from the written file through
\* _cancel to the await of a task that has not ended, or to the return
SavedCancel ==
    LET i == op.id
        popped == [tasks EXCEPT ![i] = 0]
    IN
    /\ op.name \in {"update_alarm", "remove_alarm", "disable"} /\ op.pc = "saving"
    /\ store' = op.data
    /\ IF tasks[i] = 0
       THEN Return(op.name, i, popped, task, Tail(storeQ), Respawn(op.name, i), FALSE)
       ELSE IF Live(task[i][1])
       THEN /\ CanDisplace(task, {i})
            /\ tasks' = popped
            /\ task' = [Displaced(task, {i}) EXCEPT ![i][Spare(task, i)] = CancelTask(@)]
            /\ storeQ' = Renamed(Tail(storeQ), task, {i})
            /\ op' = [op EXCEPT !.pc = "cancel_await", !.data = {},
                                !.pending = {<<i, Spare(task, i)>>},
                                !.cancelled = {<<i, Spare(task, i)>>},
                                !.late = Overdue({<<i, 1>>})]
            /\ ret' = NoRet
       ELSE IF task[i][1].res \in {"error", "nozone", "failed"}
       THEN \* "await task" raises the task's exception out of the operation
            /\ tasks' = popped
            /\ task' = Reap(task, popped, Idle)
            /\ storeQ' = Tail(storeQ)
            /\ op' = Idle
            /\ ret' = Ret(op.name, i, ErrorOf(task[i][1].res), FALSE)
       ELSE Return(op.name, i, popped, Displaced(task, {i}), Tail(storeQ),
                   Respawn(op.name, i), FALSE)
    /\ UNCHANGED <<now, heap, alarms, started, scen, everStarted>>
    /\ Frame({})

\* a _cancel that calls task.cancel() and does not await the task
CancelNotAwaited ==
    /\ op.pc = "cancel_await"
    /\ Return(op.name, op.id, tasks, task, storeQ, Respawn(op.name, op.id), op.late)
    /\ UNCHANGED <<now, store, heap, alarms, started, scen, everStarted>>
    /\ Frame({})

\* _cancel: the awaited task has ended
CancelAwaited ==
    /\ op.pc = "cancel_await"
    /\ \A ag \in op.pending : task[ag[1]][ag[2]].pc = "done"
    /\ Return(op.name, op.id, tasks, task, storeQ, Respawn(op.name, op.id), op.late)
    /\ UNCHANGED <<now, store, heap, alarms, started, scen, everStarted>>
    /\ Frame({})

Next ==
    \/ Tick
    \/ Start
    \/ StartLoaded
    \/ Stop
    \/ \E i \in Ids, k \in 1..MaxTasks : StopAwait(i, k)
    \/ \E i \in Ids : \E alarm \in Inputs(i) : AddAlarm(alarm)
    \/ \E i \in Ids : \E alarm \in Inputs(i) : UpdateAlarm(alarm)
    \/ \E i \in Ids : RemoveAlarm(i)
    \/ \E i \in Ids : Enable(i)
    \/ \E i \in Ids : Disable(i)
    \/ \E i \in Ids : TriggerNow(i)
    \/ OpGranted
    \/ SavedSpawn
    \/ SavedCancel
    \/ CancelAwaited
    \/ \E i \in Ids, k \in 1..MaxTasks : TaskRun(i, k)
    \/ \E i \in Ids, k \in 1..MaxTasks : TaskWake(i, k)
    \/ \E i \in Ids, k \in 1..MaxTasks : TaskPlayed(i, k)
    \/ \E i \in Ids, k \in 1..MaxTasks : TaskFailed(i, k)
    \/ \E i \in Ids, k \in 1..MaxTasks : TaskGranted(i, k)
    \/ \E i \in Ids, k \in 1..MaxTasks : TaskWritten(i, k)
    \/ \E i \in Ids, k \in 1..MaxTasks : TaskCancelled(i, k)

Spec == Init /\ [][Next]_vars

\* the scheduler with a store whose writes may fail, followed up to the
\* return of the call whose write was the last to fail
FaultNext ==
    \/ faults < MaxFaults /\ Next
    \/ OpSaveFailed
    \/ \E i \in Ids, k \in 1..MaxTasks : TaskSaveFailed(i, k)

FaultSpec == Init /\ [][FaultNext]_vars

(***************************************************************************)
(* The scheduler on an event loop that runs every coroutine that is ready, *)
(* with a store whose calls return and handlers that end when cancelled:   *)
(* a granted lock, a finished read or write, an awaited task that has      *)
(* ended and a CancelledError to deliver are each acted on in the end.     *)
(* Nothing makes the clock move, a sleep end or a playback return.         *)
(***************************************************************************)
Fairness ==
    /\ WF_vars(OpGranted)
    /\ WF_vars(StartLoaded)
    /\ WF_vars(SavedSpawn)
    /\ WF_vars(SavedCancel)
    /\ WF_vars(CancelAwaited)
    /\ \A i \in Ids, k \in 1..MaxTasks :
          /\ WF_vars(StopAwait(i, k))
          /\ WF_vars(TaskGranted(i, k))
          /\ WF_vars(TaskWritten(i, k))
          /\ WF_vars(TaskCancelled(i, k))

FairSpec == Init /\ [][Next]_vars /\ Fairness

(***************************************************************************)
(* The scheduler started on a file that holds a one-off alarm with a       *)
(* start_date, the first day of the clock: next_occurrence returns None    *)
(* for it from half a second before its time on.                           *)
(***************************************************************************)
DatedStore == {ToDict(Alarm("b", AlarmHour, 0, 0, "UTC", <<>>, <<0>>, "tone", TRUE))}

DatedInit ==
    /\ SchedInitOn({DatedStore})
    /\ faults = 0
    /\ snap = NoSnap
    /\ calc = NoCalc

DatedSpec == DatedInit /\ [][Next]_vars

(***************************************************************************)
(* The scheduler with a caller that takes one snapshot.                    *)
(***************************************************************************)
\* snapshot(): dict(self._alarms), a new dict that refers to the Alarm
\* objects of the live mapping.  It takes no lock and has no await, so it
\* runs between any two segments of the operations and tasks.  Of the dict
\* returned, the entries of the Watched ids are followed: ref is where the
\* object of the entry is in heap now, seen is its value at the call.
Snapshot ==
    /\ ~snap.taken
    /\ snap' = [taken |-> TRUE,
                ref |-> [i \in Ids |-> IF i \in Watched THEN alarms[i] ELSE 0],
                seen |-> [i \in Ids |-> IF i \in Watched /\ alarms[i] # 0
                                        THEN <<heap[i][alarms[i]]>> ELSE <<>>]]
    /\ ret' = Ret("snapshot", "", "ok", FALSE)
    /\ UNCHANGED <<now, store, storeQ, heap, alarms, tasks, task, started, op, scen,
                   everStarted, faults, calc>>

SnapNext ==
    \/ Next
    \/ Snapshot

SnapSpec == Init /\ [][SnapNext]_vars

(***************************************************************************)
(* The functions of models.py on their own: a constructor call, then a     *)
(* call of next_occurrence on the Alarm it returned.                       *)
(***************************************************************************)
\* the longest sequence of weekdays passed as repeat_days
MaxLen == 4
\* next_occurrence is called on the days 0..LastDay
LastDay == 2

\* every sequence of at most MaxLen integers of -1..7
DaySeqs == UNION {[1..n -> -1..7] : n \in 0..MaxLen}
\* midnight, the hour of the scheduler's alarms, the last second of a day
CalcTimes == {<<0, 0, 0>>, <<AlarmHour, 0, 0>>, <<23, 59, 59>>}
RepeatDays == {<<>>, <<0>>, <<1>>, <<6, 0>>, <<2, 5>>, <<0, 1, 2, 3, 4, 5, 6>>}
\* none, each day of the clock and the day after, a day more than a week
\* after every day of the clock
StartDates == {<<>>} \cup {<<d>> : d \in 0..LastDay + 1} \cup {<<LastDay + 8>>}

\* constructor calls with a valid id and time of day
OccArgs ==
    {Args("a", hms, tz, days, start, en) :
        hms \in CalcTimes, tz \in Zones \cup {"Mars/Olympus"}, days \in RepeatDays,
        start \in StartDates, en \in BOOLEAN}
\* constructor calls with an empty id or a time of day out of range
BadArgs ==
    {Args(id, hms, "UTC", <<>>, <<>>, TRUE) :
        id \in {"", "a"},
        hms \in {<<24, 0, 0>>, <<-1, 0, 0>>, <<AlarmHour, 60, 0>>, <<AlarmHour, -1, 0>>,
                 <<AlarmHour, 0, 60>>, <<AlarmHour, 0, -1>>, <<AlarmHour, 0, 0>>}}
\* constructor calls with every sequence of weekdays
NormArgs == {Args("a", <<AlarmHour, 0, 0>>, "UTC", days, <<>>, TRUE) : days \in DaySeqs}

\* the instants of a day at which a time of day of CalcTimes in a zone of
\* Zones is a second ahead, half a second ahead, or now
DayInstants ==
    {(((hms[1] * 60 + hms[2]) * 60 + hms[3]) * TicksPerSecond - ZoneOffset(tz) - e) % TicksPerDay :
        hms \in CalcTimes, tz \in Zones, e \in {0, Grace, TicksPerSecond}}
CalcNows == {d * TicksPerDay + o : d \in 0..LastDay, o \in DayInstants}

CalcInit ==
    /\ SchedInit
    /\ store = {}
    /\ faults = 0
    /\ snap = NoSnap
    /\ \E a \in OccArgs \cup BadArgs \cup NormArgs :
       \E t \in IF a \in OccArgs THEN CalcNows ELSE {0} :
          calc = [NoCalc EXCEPT !.args = a, !.now = t]

\* Alarm(**args)
CalcAlarm ==
    /\ calc.fn = "none"
    /\ calc' = [calc EXCEPT !.fn = "Alarm", !.out = Construct(calc.args),
                            !.obj = Construct(calc.args).value]
    /\ UNCHANGED <<sched, faults, snap>>

\* alarm.next_occurrence(now=now) on the Alarm constructed
CalcNextOccurrence ==
    /\ calc.fn = "Alarm" /\ calc.obj # <<>>
    /\ calc' = [calc EXCEPT !.fn = "next_occurrence",
                            !.out = CallNextOccurrence(calc.obj[1], calc.now)]
    /\ UNCHANGED <<sched, faults, snap>>

\* _normalize_days(days)
CalcNormalizeDays ==
    /\ calc.fn = "none"
    /\ LET n == NormalizeDays(calc.args.repeat_days) IN
       calc' = [calc EXCEPT !.fn = "_normalize_days",
                            !.out = IF n[1] = "ValueError"
                                    THEN [raised |-> "ValueError", value |-> <<>>]
                                    ELSE [raised |-> "", value |-> <<n[2]>>]]
    /\ UNCHANGED <<sched, faults, snap>>

CalcNext ==
    \/ CalcAlarm
    \/ CalcNextOccurrence
    \/ CalcNormalizeDays

CalcSpec == CalcInit /\ [][CalcNext]_vars

(***************************************************************************)
(* The properties.                                                         *)
(***************************************************************************)
\* the timer tasks of id i that have not ended
LiveTimers(tk, i) == {k \in 1..MaxTasks : Live(tk[i][k])}

\* a task that has nothing left to do but write the file
Finishing(t) == t.pc \in {"save_wait", "saving"}

\* C1: an enabled one-off alarm whose source has a registered handler, added
\* with add_alarm to a Started scheduler and touched by no other operation,
\* is played by its timer task once and never a second time, and once that
\* task has ended its enabled field is false in the live mapping and in the
\* store.
C1_FiresOnceThenDisabled ==
    \A i \in Watched :
        /\ scen[i] # "twice"
        /\ (scen[i] = "fired" /\ LiveTimers(task, i) = {}) =>
               /\ alarms[i] # 0 /\ ~heap[i][alarms[i]].enabled
               /\ InStore(i) /\ ~Stored(i).enabled

Cancelling == {"disable", "remove_alarm", "update_alarm", "stop"}

\* C2: when disable, remove_alarm, update_alarm or stop returns, every timer
\* task it cancelled has ended; and a task with a cancellation to be
\* delivered never goes on to invoke playback, whatever the clock shows.
C2_CancelledTaskHasExited ==
    [][/\ (ret'.op \in Cancelling /\ ret'.out = "ok") =>
              \A ag \in op.cancelled : ~Live(task'[ag[1]][ag[2]])
       /\ \A i \in Ids, k \in 1..MaxTasks :
              (task[i][k].cancel /\ task[i][k].pc # "playing") =>
                  (task'[i][k].pc # "playing" /\ scen'[i] \in {scen[i], "off"})]_vars

\* disable(id) has returned after cancelling a sleeping timer task whose
\* fire time had already passed
C2_DisableOverdue ==
    /\ ret.op = "disable" /\ ret.out = "ok" /\ ret.late
    /\ LiveTimers(task, ret.id) = {}

\* no scheduler operation and no timer-task save is in progress
Quiescent ==
    /\ op.pc = "idle"
    /\ \A i \in Ids, k \in 1..MaxTasks : ~Finishing(task[i][k])

\* C3: from the first completed start() on, in every quiescent state the
\* records of the store are those of the live mapping, enabled included.
C3_StoreEqualsLive ==
    (everStarted /\ Quiescent) => store = LiveView(alarms, heap)

\* C4: with no operation in progress, an id has a timer task that has not
\* ended (one that has disabled its alarm and is only writing the file
\* counts as ended) exactly when the scheduler is Started, the id is in the
\* live mapping and its alarm is enabled; an id never has two such tasks,
\* every key of the task mapping is a key of the live mapping, and a Stopped
\* scheduler has no timer task.
C4_TimerIffEnabled ==
    op.pc = "idle" =>
        /\ \A i \in Ids :
              (\E k \in LiveTimers(task, i) : ~Finishing(task[i][k]))
                  <=> (started /\ alarms[i] # 0 /\ heap[i][alarms[i]].enabled)
        /\ \A i \in Ids : Cardinality(LiveTimers(task, i)) <= 1
        /\ \A i \in Ids : tasks[i] # 0 => alarms[i] # 0
        /\ ~started => \A i \in Ids : tasks[i] = 0 /\ LiveTimers(task, i) = {}

\* C5: stop() ends normally, whatever the timer tasks have come to, with
\* every timer task ended, the task mapping empty and the scheduler Stopped;
\* on a Stopped scheduler it changes nothing.
C5_StopClearsTasks ==
    [][ret'.op = "stop" =>
          /\ ret'.out = "ok"
          /\ ~started'
          /\ \A i \in Ids : tasks'[i] = 0 /\ LiveTimers(task', i) = {}
          /\ (~started /\ op.pc = "idle") =>
                 UNCHANGED <<alarms, heap, store, storeQ, tasks, task, started, op>>]_vars

\* C6: start() on a Started scheduler changes nothing and reads nothing; on a
\* Stopped one it makes the live mapping the alarms of the store, becomes
\* Started, and leaves one new timer task for each stored alarm that is
\* enabled and none for any other id.
C6_StartLoadsAndSpawns ==
    [][ret'.op = "start" =>
          IF started
          THEN UNCHANGED <<alarms, heap, store, storeQ, tasks, task, started, op>>
          ELSE /\ started' /\ store' = store
               /\ \A i \in Ids :
                     /\ alarms'[i] # 0 <=> InStore(i)
                     /\ InStore(i) => heap'[i][alarms'[i]] = FromDict(Stored(i))
                     /\ IF InStore(i) /\ FromDict(Stored(i)).enabled
                        THEN /\ tasks'[i] # 0
                             /\ task'[i][tasks'[i]] = NewTask
                             /\ LiveTimers(task', i) = {tasks'[i]}
                        ELSE /\ tasks'[i] = 0
                             /\ LiveTimers(task', i) = {}]_vars

\* start() has returned with a new timer task for an enabled alarm and none
\* for a disabled alarm it loaded
C6_StartedWithBoth ==
    /\ ret.op = "start" /\ started
    /\ \E i \in Ids : /\ alarms[i] # 0 /\ heap[i][alarms[i]].enabled
                      /\ tasks[i] # 0 /\ task[i][tasks[i]] = NewTask
    /\ \E j \in Ids : /\ alarms[j] # 0 /\ ~heap[j][alarms[j]].enabled
                      /\ tasks[j] = 0

\* C7: add_alarm fails with the duplicate-id error exactly when the id is in
\* the live mapping, and then the live mapping, the Alarm objects, the
\* store, the task mapping, the timer tasks and Started/Stopped are as
\* before the call.
C7_DuplicateAddChangesNothing ==
    [][/\ ret'.out = "DuplicateId" =>
              /\ ret'.op = "add_alarm" /\ alarms[ret'.id] # 0
              /\ UNCHANGED <<alarms, heap, store, storeQ, tasks, task, started, op>>
       /\ (op.pc = "idle" /\ op'.pc # "idle" /\ op'.name = "add_alarm") =>
              alarms[op'.id] = 0]_vars

\* add_alarm has failed on the id of an alarm whose timer task is sleeping
C7_DuplicateWhileSleeping ==
    /\ ret.op = "add_alarm" /\ ret.out = "DuplicateId"
    /\ started /\ store # {}
    /\ tasks[ret.id] # 0 /\ task[ret.id][tasks[ret.id]].pc = "sleeping"

ByKey == {"update_alarm", "remove_alarm", "enable", "disable", "trigger_now"}

\* C8: update_alarm, remove_alarm, enable, disable and trigger_now fail
\* with the not-found error exactly when the id is absent from the live
\* mapping, and then the live mapping, the Alarm objects, the store, the
\* store's lock queue (no save is issued), the task mapping and the timer
\* tasks (no playback is invoked) are as before the call.
C8_NotFoundChangesNothing ==
    [][/\ ret'.out = "NotFound" =>
              /\ ret'.op \in ByKey /\ alarms[ret'.id] = 0
              /\ UNCHANGED <<alarms, heap, store, storeQ, tasks, task, started, op>>
       /\ (ret'.op = "trigger_now" /\ alarms[ret'.id] = 0) => ret'.out = "NotFound"
       /\ (op.pc = "idle" /\ ret'.op \in ByKey /\ alarms[ret'.id] = 0) =>
              ret'.out = "NotFound"
       /\ (op.pc = "idle" /\ op'.pc # "idle" /\ op'.name \in ByKey) =>
              alarms[op'.id] # 0]_vars

\* an operation has failed on an absent id while the scheduler is Started
\* with alarms in the store and a timer task running
C8_NotFoundWhileRunning ==
    /\ ret.out = "NotFound" /\ ret.op = "update_alarm"
    /\ started /\ store # {}
    /\ \E i \in Ids : LiveTimers(task, i) # {}

\* C9: when update_alarm returns on a Started scheduler, the timer task it
\* cancelled has ended, no other timer task of the id is left, and the id
\* has a new timer task exactly when the new alarm is enabled; a new timer
\* task computes its fire time with next_occurrence of the alarm the live
\* mapping then holds; and with no operation in progress a sleeping task
\* that invokes playback is the task of the task mapping, holds the alarm
\* of the live mapping and has reached the fire time it computed.
C9_UpdateReschedules ==
    [][/\ (ret'.op = "update_alarm" /\ ret'.out = "ok" /\ started) =>
              /\ \A ag \in op.cancelled : ~Live(task'[ag[1]][ag[2]])
              /\ IF heap'[ret'.id][alarms'[ret'.id]].enabled
                 THEN /\ tasks'[ret'.id] # 0
                      /\ task'[ret'.id][tasks'[ret'.id]] = NewTask
                      /\ LiveTimers(task', ret'.id) = {tasks'[ret'.id]}
                 ELSE /\ tasks'[ret'.id] = 0
                      /\ LiveTimers(task', ret'.id) = {}
       /\ \A i \in Ids, k \in 1..MaxTasks :
              (task[i][k].pc = "new" /\ task'[i][k].pc = "sleeping") =>
                  /\ tasks[i] = k /\ alarms[i] # 0
                  /\ task'[i][k].alarm = alarms[i]
                  /\ task'[i][k].wake = NextOccurrence(heap[i][alarms[i]], now)[1]
       /\ \A i \in Ids, k \in 1..MaxTasks :
              (op.pc = "idle" /\ task[i][k].pc = "sleeping" /\ task'[i][k].pc = "playing") =>
                  /\ tasks[i] = k /\ task[i][k].alarm = alarms[i]
                  /\ now >= task[i][k].wake]_vars

\* update_alarm has returned after replacing an alarm, whose timer task slept
\* past its fire time, by one repeating on Tuesdays: the new timer task is
\* about to compute the ring of Tuesday
C9_MovedToTuesday ==
    /\ ret.op = "update_alarm" /\ ret.out = "ok" /\ ret.late
    /\ started /\ now = Fire(0)
    /\ heap[ret.id][alarms[ret.id]].repeat_days = <<1>>
    /\ tasks[ret.id] # 0 /\ task[ret.id][tasks[ret.id]] = NewTask
    /\ NextOccurrence(heap[ret.id][alarms[ret.id]], now) = <<Fire(1)>>

\* C10: when the playback call of a timer task fails, the task goes on as
\* after a playback: for a one-off alarm it sets enabled to false and saves,
\* for a repeating alarm it stays in its loop.
C10_FailedPlaybackCountsAsFired ==
    [][\A i \in Ids, k \in 1..MaxTasks :
          (Live(task[i][k]) /\ task'[i][k].res = "error") =>
              IF heap[i][task[i][k].alarm].repeat_days = <<>>
              THEN /\ Finishing(task'[i][k])
                   /\ ~heap'[i][task[i][k].alarm].enabled
              ELSE Live(task'[i][k])]_vars

Mutating == {"add_alarm", "update_alarm", "remove_alarm", "enable", "disable"}

\* C11: when the write of the store fails inside add_alarm, update_alarm,
\* remove_alarm, enable or disable, the call ends with the storage error and
\* the live mapping and the task mapping are as before the call: after a
\* failed add_alarm the id is absent, after a failed remove_alarm or
\* update_alarm it is present, after a failed enable the alarm is disabled,
\* after a failed disable it is enabled, and no timer task was spawned or
\* cancelled.
C11_FailedSaveCommitsNothing ==
    [][(faults' # faults /\ op.pc = "saving" /\ op.name \in Mutating) =>
          /\ ret'.op = op.name /\ ret'.out = "StorageFailed"
          /\ UNCHANGED <<tasks, task>>
          /\ CASE op.name = "add_alarm" -> alarms'[op.id] = 0
               [] op.name = "remove_alarm" -> alarms'[op.id] # 0
               [] op.name = "update_alarm" -> alarms'[op.id] # 0
               [] op.name = "enable" ->
                     alarms'[op.id] # 0 /\ ~heap'[op.id][alarms'[op.id]].enabled
               [] op.name = "disable" ->
                     alarms'[op.id] # 0 /\ heap'[op.id][alarms'[op.id]].enabled]_vars

\* C12: enable on an enabled alarm and disable on a disabled one return at
\* once and change nothing, and only a call that flips the flag goes on to
\* save; an enable that returns has the alarm enabled in the live mapping and
\* in a store that holds every id of the live mapping, with a new timer task
\* when Started and no change to the tasks when Stopped; a disable that
\* returns has the alarm disabled in both, no entry in the task mapping and
\* no timer task left of those it cancelled.
C12_EnableDisable ==
    [][/\ (ret'.op \in {"enable", "disable"} /\ op.pc = "idle" /\ alarms[ret'.id] # 0) =>
              /\ ret'.out = "ok"
              /\ heap[ret'.id][alarms[ret'.id]].enabled = (ret'.op = "enable")
              /\ UNCHANGED <<alarms, heap, store, storeQ, tasks, task, started, op>>
       /\ (op.pc = "idle" /\ op'.pc # "idle" /\ op'.name \in {"enable", "disable"}) =>
              /\ heap[op'.id][alarms[op'.id]].enabled = (op'.name = "disable")
              /\ heap'[op'.id][alarms'[op'.id]].enabled = (op'.name = "enable")
              /\ UNCHANGED <<alarms, store, tasks, task, started>>
       /\ (ret'.op = "enable" /\ ret'.out = "ok" /\ op.pc # "idle") =>
              /\ heap'[ret'.id][alarms'[ret'.id]].enabled
              /\ \E d \in store' : d.id = ret'.id /\ d.enabled
              /\ {d.id : d \in store'} = {j \in Ids : alarms'[j] # 0}
              /\ IF started
                 THEN /\ tasks'[ret'.id] # 0
                      /\ task'[ret'.id][tasks'[ret'.id]] = NewTask
                 ELSE UNCHANGED <<tasks, task>>
       /\ (ret'.op = "disable" /\ ret'.out = "ok" /\ op.pc # "idle") =>
              /\ ~heap'[ret'.id][alarms'[ret'.id]].enabled
              /\ \E d \in store' : d.id = ret'.id /\ ~d.enabled
              /\ {d.id : d \in store'} = {j \in Ids : alarms'[j] # 0}
              /\ tasks'[ret'.id] = 0
              /\ \A ag \in op.cancelled : ~Live(task'[ag[1]][ag[2]])
              /\ ~started => UNCHANGED <<tasks, task>>]_vars

\* disable has returned on a Started scheduler after cancelling a timer task
\* whose fire time had passed: the alarm is disabled in the live mapping and
\* in the store and has no entry in the task mapping
C12_DisabledAndPersisted ==
    /\ ret.op = "disable" /\ ret.out = "ok" /\ ret.late /\ started
    /\ ~heap[ret.id][alarms[ret.id]].enabled
    /\ InStore(ret.id) /\ ~Stored(ret.id).enabled
    /\ tasks[ret.id] = 0

\* C13: trigger_now of a present id calls the player registry at once (it
\* ends played or with the player's error) and leaves the live mapping, the
\* Alarm objects with their enabled flags, the store, the task mapping, the
\* timer tasks with their fire times and Started/Stopped as they were.
C13_TriggerNowFrame ==
    [][(ret'.op = "trigger_now" /\ alarms[ret'.id] # 0) =>
          /\ ret'.out \in {"played", "PlayerError"}
          /\ UNCHANGED <<now, alarms, heap, store, storeQ, tasks, task, started, op>>]_vars

\* trigger_now has played a disabled alarm on a Stopped scheduler
C13_PlayedWhileStopped ==
    /\ ret.op = "trigger_now" /\ ret.out = "played"
    /\ ~started /\ everStarted
    /\ ~heap[ret.id][alarms[ret.id]].enabled
    /\ InStore(ret.id)

\* (instant + zone offset) mod a day: the local time of day of an instant
LocalTime(instant, tz) == (instant + ZoneOffset(tz)) % TicksPerDay
\* the time of day an alarm is set to, in ticks after local midnight
TimeOfDay(alarm) == ((alarm.hour * 60 + alarm.minute) * 60 + alarm.second) * TicksPerSecond
\* the instant is the alarm's time of day on the given date, in the alarm's zone
AtAlarmTime(instant, alarm, date) ==
    /\ LocalDate(instant, alarm.timezone) = date
    /\ LocalTime(instant, alarm.timezone) = TimeOfDay(alarm)
\* next_occurrence has returned for an enabled Alarm
Returned == calc.fn = "next_occurrence" /\ calc.out.raised = "" /\ calc.obj[1].enabled

\* C14: a constructor call with a time zone key the zone database does not
\* have raises an error, and no call of next_occurrence on a constructed
\* Alarm raises.
C14_InvalidZoneRejected ==
    /\ (calc.fn = "Alarm" /\ calc.args.timezone \notin Zones) => calc.out.raised # ""
    /\ calc.fn = "next_occurrence" => calc.out.raised = ""

\* C15 as stated: for an enabled alarm with empty repeat_days and no
\* start_date, a now whose local time of day is before the alarm's gives
\* today's instant and a now at or after it gives tomorrow's instant.
C15_BeforeTodayGivesToday ==
    (Returned /\ calc.obj[1].repeat_days = <<>> /\ calc.obj[1].start_date = <<>>) =>
        LET alarm == calc.obj[1]
            today == LocalDate(calc.now, alarm.timezone)
        IN  /\ calc.out.value # <<>>
            /\ IF LocalTime(calc.now, alarm.timezone) < TimeOfDay(alarm)
               THEN AtAlarmTime(calc.out.value[1], alarm, today)
               ELSE AtAlarmTime(calc.out.value[1], alarm, today + 1)

\* C15: for an enabled alarm with empty repeat_days and no start_date, a
\* now more than half a second before today's alarm time (in the alarm's
\* zone) gives today's instant, and every later now of the day, from half a
\* second before the alarm time on, gives tomorrow's instant at the same
\* local time.
C15_GraceBeforeTodayGivesToday ==
    (Returned /\ calc.obj[1].repeat_days = <<>> /\ calc.obj[1].start_date = <<>>) =>
        LET alarm == calc.obj[1]
            today == LocalDate(calc.now, alarm.timezone)
        IN  /\ calc.out.value # <<>>
            /\ IF LocalTime(calc.now, alarm.timezone) + Grace < TimeOfDay(alarm)
               THEN AtAlarmTime(calc.out.value[1], alarm, today)
               ELSE AtAlarmTime(calc.out.value[1], alarm, today + 1)

\* half a second before the alarm time of a one-off alarm in the zone two
\* hours east: the result is the alarm time of the next day
C15_HalfSecondBefore ==
    /\ Returned /\ calc.obj[1].repeat_days = <<>> /\ calc.obj[1].start_date = <<>>
    /\ calc.obj[1].timezone = "Etc/GMT-2"
    /\ LocalTime(calc.now, "Etc/GMT-2") + Grace = TimeOfDay(calc.obj[1])
    /\ calc.out.value = <<calc.now + Grace + TicksPerDay>>

\* C16: for an enabled alarm with empty repeat_days and a start_date,
\* next_occurrence returns none when the start_date is before now's local
\* date or the alarm time on the start_date is at or before now + 0.5 s, and
\* otherwise the instant of the alarm's local time on the start_date; no
\* later day is ever returned.
C16_StartDateOnce ==
    (Returned /\ calc.obj[1].repeat_days = <<>> /\ calc.obj[1].start_date # <<>>) =>
        LET alarm == calc.obj[1]
            start == alarm.start_date[1]
        IN  IF \/ start < LocalDate(calc.now, alarm.timezone)
               \/ start * TicksPerDay + TimeOfDay(alarm)
                     <= calc.now + ZoneOffset(alarm.timezone) + Grace
            THEN calc.out.value = <<>>
            ELSE /\ calc.out.value # <<>>
                 /\ AtAlarmTime(calc.out.value[1], alarm, start)

\* the start_date is today in the alarm's zone and the alarm time is half a
\* second ahead: the result is none
C16_TodayWithinGrace ==
    /\ Returned /\ calc.obj[1].repeat_days = <<>> /\ calc.obj[1].start_date # <<>>
    /\ calc.obj[1].start_date[1] = LocalDate(calc.now, calc.obj[1].timezone)
    /\ LocalTime(calc.now, calc.obj[1].timezone) + Grace = TimeOfDay(calc.obj[1])
    /\ calc.out.value = <<>>

\* C17: for an enabled alarm with non-empty repeat_days, next_occurrence
\* returns an instant whose weekday in the alarm's zone is one of
\* repeat_days and which is strictly after now + 0.5 s.
C17_RepeatingStrictlyAfter ==
    (Returned /\ calc.obj[1].repeat_days # <<>>) =>
        /\ calc.out.value # <<>>
        /\ Weekday(LocalDate(calc.out.value[1], calc.obj[1].timezone))
              \in Range(calc.obj[1].repeat_days)
        /\ calc.out.value[1] > calc.now + Grace

\* C18: for an enabled alarm with a start_date, repeating or not, an instant
\* returned by next_occurrence has a local date, in the alarm's zone, on
\* or after the start_date.
C18_NotBeforeStartDate ==
    (Returned /\ calc.obj[1].start_date # <<>> /\ calc.out.value # <<>>) =>
        LocalDate(calc.out.value[1], calc.obj[1].timezone) >= calc.obj[1].start_date[1]

\* C19: the repeat_days of a constructed Alarm, and the result of
\* _normalize_days, are strictly ascending and hold exactly the weekdays of
\* the argument; normalizing them again returns them unchanged; a sequence
\* with an index outside 0..6 makes the call raise ValueError.
C19_NormalizedDays ==
    LET days == calc.args.repeat_days
        valid == \A k \in 1..Len(days) : 0 <= days[k] /\ days[k] <= 6
        Good(t) ==
            /\ \A k \in 1..Len(t) - 1 : t[k] < t[k + 1]
            /\ Range(t) = Range(days)
            /\ NormalizeDays(t) = <<"ok", t>>
    IN  /\ calc.fn = "_normalize_days" =>
            IF valid THEN calc.out.raised = "" /\ Good(calc.out.value[1])
            ELSE calc.out.raised = "ValueError"
        /\ calc.fn = "Alarm" =>
            /\ ~valid => calc.out.raised = "ValueError"
            /\ calc.out.raised = "" => Good(calc.obj[1].repeat_days)

\* Alarm(..., repeat_days=[3, 1, 1, 5]) has repeat_days (1, 3, 5)
C19_ThreeOneOneFive ==
    /\ calc.fn = "Alarm" /\ calc.args.repeat_days = <<3, 1, 1, 5>>
    /\ calc.out.raised = "" /\ calc.obj[1].repeat_days = <<1, 3, 5>>

\* C20: the dict returned by snapshot() keeps the contents it had when it
\* was returned: every alarm in it has the field values, enabled included,
\* it had at the call, whatever add_alarm, remove_alarm, update_alarm,
\* enable, disable and the timer tasks do afterwards.
C20_SnapshotKeepsContents ==
    \A i \in Ids : snap.ref[i] # 0 => heap[i][snap.ref[i]] = snap.seen[i][1]

\* the operations that run under AlarmScheduler._lock
Locked == Mutating \cup {"start", "stop"}

\* C21: while one of add_alarm, update_alarm, remove_alarm, enable, disable,
\* start and stop is between taking the scheduler lock and its return, no
\* other of them begins, ends or takes a step: the operation in progress
\* stays the same one until it returns, the only call of these that ends is
\* that one, and the live mapping and the task mapping change only in its
\* own steps.
C21_OneOperationAtATime ==
    [][op.pc # "idle" =>
          /\ op'.pc # "idle" => (op'.name = op.name /\ op'.id = op.id)
          /\ ret'.op \in Locked => (ret'.op = op.name /\ ret'.id = op.id /\ op'.pc = "idle")
          /\ (alarms' # alarms \/ tasks' # tasks) => op' # op]_vars

\* update_alarm has replaced the alarm in the live mapping, written the file
\* and waits, holding the lock, for the timer task it cancelled, while the
\* timer task of another id sleeps
C21_WaitingUnderLock ==
    /\ op.name = "update_alarm" /\ op.pc = "cancel_await"
    /\ \E ag \in op.pending : Live(task[ag[1]][ag[2]])
    /\ \E i \in Ids \ {op.id} : tasks[i] # 0 /\ task[i][tasks[i]].pc = "sleeping"

\* the operation a step belongs to, when it is a step of an operation
Acting == IF op.pc = "idle" THEN op'.name ELSE op.name
\* a step that spawns or cancels a timer task or changes the task mapping
TaskChange ==
    \/ tasks' # tasks
    \/ \E i \in Ids, k \in 1..MaxTasks :
          \/ task'[i][k].cancel /\ ~task[i][k].cancel
          \/ task'[i][k].pc = "new" /\ task[i][k].pc # "new"

\* C22: add_alarm, update_alarm, remove_alarm, enable and disable spawn or
\* cancel a timer task only once their write of the file has completed (in
\* the segment that follows the write, or after the wait for the cancelled
\* task that follows it), and when one of them spawns a timer task for its
\* alarm the record of that id in the file is the alarm of the live mapping
\* as it is at the spawn.
C22_SaveBeforeTask ==
    [][(Acting \in Mutating /\ TaskChange) =>
          /\ \/ op.pc = "saving" /\ store' = op.data
             \/ op.pc = "cancel_await" /\ store' = store
          /\ (tasks'[op.id] # 0 /\ task'[op.id][tasks'[op.id]] = NewTask) =>
                /\ alarms'[op.id] # 0
                /\ \E d \in store' : d = ToDict(heap'[op.id][alarms'[op.id]])]_vars

\* add_alarm has returned on a Started scheduler with a new timer task for
\* an enabled alarm that the file holds
C22_AddedAndSpawned ==
    /\ ret.op = "add_alarm" /\ ret.out = "ok" /\ started
    /\ tasks[ret.id] # 0 /\ task[ret.id][tasks[ret.id]] = NewTask
    /\ InStore(ret.id) /\ Stored(ret.id) = ToDict(heap[ret.id][alarms[ret.id]])
    /\ Stored(ret.id).enabled

\* the entry of id i in the returned dict as it was at the call, and the
\* record of id i in the file, each as <<>> or <<record>>
SnapView(i) == IF snap.seen[i] = <<>> THEN <<>> ELSE <<ToDict(snap.seen[i][1])>>
StoreView(i) == IF InStore(i) THEN <<Stored(i)>> ELSE <<>>

\* C23: snapshot() never returns while add_alarm, update_alarm,
\* remove_alarm, enable or disable has changed the live mapping and its
\* write of the file has not completed with a dict that already shows that
\* change: the entry of the operation's id in the dict is the record of the
\* file.
C23_SnapshotNotMidOperation ==
    (/\ ret.op = "snapshot"
     /\ op.name \in Mutating /\ op.pc \in {"save_wait", "saving"}
     /\ op.id \in Watched) =>
        SnapView(op.id) = StoreView(op.id)

\* task k of id i takes a step of its own (not the delivery of a
\* cancellation) from the state it is in
Steps(i, k) ==
    /\ task[i][k].pc \in {"new", "playing"} /\ ~task[i][k].cancel
    /\ op' = op /\ ret' = NoRet
    /\ task'[i][k] # task[i][k]
\* the step starts at the head of the loop (a task that starts to run, or a
\* playback that returns for a repeating alarm), or after the playback of a
\* one-off alarm
AtLoopHead(i, k) ==
    \/ task[i][k].pc = "new"
    \/ task[i][k].pc = "playing" /\ heap[i][task[i][k].alarm].repeat_days # <<>>
AfterOneOff(i, k) ==
    task[i][k].pc = "playing" /\ heap[i][task[i][k].alarm].repeat_days = <<>>
\* the live Alarm objects are as they were
LiveObjectsKept == \A j \in Ids : alarms[j] # 0 => heap'[j][alarms[j]] = heap[j][alarms[j]]

C25_PlaysOnlyLiveEnabled ==
    [][\A i \in Ids, k \in 1..MaxTasks :
          (task'[i][k].pc = "playing" /\ task[i][k].pc # "playing" /\ op' = op) =>
              /\ alarms[i] # 0
              /\ task'[i][k].alarm = alarms[i]
              /\ heap[i][alarms[i]].enabled]_vars

\* C26: when add_alarm, update_alarm, remove_alarm, enable or disable
\* writes the file, every id the file held other than the one the
\* operation names is still in the file, before the first start() too.
C26_OtherAlarmsStayStored ==
    [][(op.name \in Mutating /\ op.pc = "saving" /\ op'.pc # "saving") =>
          \A d \in store : d.id # op.id => \E e \in store' : e.id = d.id]_vars

\* C27: every start, stop, add_alarm, update_alarm, remove_alarm, enable
\* and disable that has taken the scheduler lock returns (or raises) and
\* releases it in the end, whatever the timer tasks do meanwhile.
C27_OperationsReturn == (op.pc # "idle") ~> (op.pc = "idle")

\* stop() holds the scheduler lock and awaits a timer task it has cancelled
\* while that task holds the store's lock for its write
C27_StopAwaitsWriter ==
    /\ op.name = "stop" /\ op.pc = "await"
    /\ \E ag \in op.pending :
          /\ task[ag[1]][ag[2]].pc = "saving" /\ task[ag[1]][ag[2]].cancel
          /\ Head(storeQ) = ag

====
